---- MODULE Spec2Model ----
(***************************************************************************)
(* A model of strawberry-core-rs (src/strawberry-core-rs/src/lib.rs): the  *)
(* name translator camel_to_snake, the two resolver adapters JsonResolver  *)
(* and PythonResolver, the value marshaler python_to_resolved_value and    *)
(* the two entry points execute_query and execute_query_with_resolvers.    *)
(*                                                                         *)
(* Strings whose characters matter (field and attribute names, mapping     *)
(* keys) are sequences of one-character strings; strings that are only     *)
(* carried around are TLA+ strings.  The GraphQL engine (apollo-compiler)  *)
(* is outside the repository: its parse and validate steps are inputs that *)
(* accept or reject, and its execution is the sequence of resolve_field    *)
(* callbacks it makes on the adapters it is handed.                        *)
(***************************************************************************)
EXTENDS Integers, Sequences, FiniteSets, TLC

VARIABLES
    \* camel_to_snake, one loop iteration per step (lib.rs:10-23)
    s_in,           \* the argument s
    s_i,            \* number of characters the for loop has consumed
    s_out,          \* the String `result`
    s_pc,           \* "loop" | "done" | "off"
    \* python_to_resolved_value applied to one host value (lib.rs:160-231)
    m_value,        \* the argument value
    m_info,         \* the argument info
    m_result,       \* the Result returned
    m_pc,           \* "call" | "done" | "off"
    \* one call of execute_query or execute_query_with_resolvers
    pc,             \* "idle" | "executing" | "done"
    entry,          \* "none" | "data" | "live"
    root,           \* root_data / root_value
    query,          \* the root field the document selects
    rootResolver,   \* the adapter handed to execute_sync
    tasks,          \* resolve_field calls the engine has still to make
    adapters,       \* every adapter constructed during this execution
    last,           \* the engine's last resolve_field call and its result
    gil,            \* nesting depth of the host-interpreter lock
    outcome,        \* "none" | "ok" | the host exception raised
    stage,          \* the step of the entry point that decided the outcome
    execStarted,    \* execute_sync has been called
    response,       \* the engine's response data
    hostLog         \* host-runtime events of the last handler

snakeVars == <<s_in, s_i, s_out, s_pc>>

marshalVars == <<m_value, m_info, m_result, m_pc>>

execVars == <<pc, entry, root, query, rootResolver, tasks, adapters, last, gil, outcome,
              stage, execStarted, response, hostLog>>

vars == <<snakeVars, marshalVars, execVars>>

-----------------------------------------------------------------------------
(* Bounds *)

MaxNameLen == 3

MaxListLen == 2

-----------------------------------------------------------------------------
(* camel_to_snake (lib.rs:9-23) *)

UpperChars == {"B", "N", "S", "Z"}

\* char::to_lowercase().next().unwrap() on an ASCII character (lib.rs:17)
to_lowercase(ch) ==
    CASE ch = "B" -> "b"
      [] ch = "N" -> "n"
      [] ch = "S" -> "s"
      [] ch = "Z" -> "z"
      [] OTHER -> ch

\* char::is_uppercase (lib.rs:13)
is_uppercase(ch) == ch \in UpperChars

\* One iteration of the for loop of camel_to_snake: the characters pushed
\* for the character ch at 0-based index i (lib.rs:12-21)
SnakePushNoIndexCheck(i, ch) ==
    IF is_uppercase(ch) THEN <<"_", to_lowercase(ch)>> ELSE <<ch>>

SnakePush(i, ch) ==
    IF is_uppercase(ch)
    THEN (IF i > 0 THEN <<"_">> ELSE <<>>) \o <<to_lowercase(ch)>>
    ELSE <<ch>>

RECURSIVE SnakeFrom(_, _)
SnakeFrom(s, i) ==
    IF i >= Len(s) THEN <<>>
    ELSE SnakePush(i, s[i + 1]) \o SnakeFrom(s, i + 1)

\* camel_to_snake as a function of its argument (lib.rs:10-23)
camel_to_snake(s) == SnakeFrom(s, 0)

-----------------------------------------------------------------------------
(* Names: field names, attribute names and mapping keys *)

N_hello == <<"h", "e", "l", "l", "o">>

N_homeStadium == <<"h", "o", "m", "e", "S", "t", "a", "d", "i", "u", "m">>

N_name == <<"n", "a", "m", "e">>

N_typename == <<"_", "_", "t", "y", "p", "e", "n", "a", "m", "e">>

-----------------------------------------------------------------------------
(* serde_json::Value (lib.rs:6) *)

JNull == [jk |-> "null"]

JBool(b) == [jk |-> "bool", v |-> b]

\* nt: "int" (serde_json PosInt/NegInt) or "float"
JNumber(lex, nt) == [jk |-> "number", v |-> lex, nt |-> nt]

JString(s) == [jk |-> "string", v |-> s]

JArray(items) == [jk |-> "array", items |-> items]

JObject(map) == [jk |-> "object", map |-> map]

-----------------------------------------------------------------------------
(* Host (Python) values, as pyo3 sees them through &PyAny *)

PyNone == [k |-> "none"]

PyStr(s) == [k |-> "str", v |-> s]

\* mag: "i64" (fits a 64-bit signed integer), "f64" (does not, but converts
\* to a finite double), "huge" (converts to neither)
PyInt(lex, mag) == [k |-> "int", v |-> lex, mag |-> mag]

PyFloat(lex) == [k |-> "float", v |-> lex]

PyBool(b) == [k |-> "bool", v |-> b]

PyList(items) == [k |-> "list", items |-> items]

PyDict(map) == [k |-> "dict", map |-> map]

\* A bound method or function: call0 returns ret, or raises
PyMethod(raises, ret) == [k |-> "method", raises |-> raises, ret |-> ret]

\* An instance: named says whether __class__.__name__ extracts as a String
PyObj(cls, named, attrs) == [k |-> "obj", cls |-> cls, named |-> named, attrs |-> attrs]

\* A Result<_, _>, with the host-runtime accesses made to compute it
Ok(val, ev) == [ok |-> TRUE, val |-> val, ev |-> ev]

Err(err, ev) == [ok |-> FALSE, err |-> err, ev |-> ev]

\* PyAny::getattr (lib.rs:102, 106, 212, 213)
HasAttr(value, name) ==
    /\ value.k = "obj"
    /\ name \in DOMAIN value.attrs

\* PyAny::is_callable (lib.rs:111)
is_callable(value) == value.k = "method"

\* PyAny::is_none (lib.rs:166)
is_none(value) == value.k = "none"

\* value.extract::<String>() (lib.rs:171)
ExtractsString(value) == value.k = "str"

\* value.extract::<i64>() (lib.rs:175): a host bool is a host int
ExtractsI64(value) ==
    \/ value.k = "int" /\ value.mag = "i64"
    \/ value.k = "bool"

I64Of(value) == IF value.k = "bool" THEN (IF value.v = "true" THEN "1" ELSE "0") ELSE value.v

\* value.extract::<f64>() (lib.rs:179): any host number that converts to a double
ExtractsF64(value) ==
    \/ value.k = "float"
    \/ value.k = "int" /\ value.mag \in {"i64", "f64"}
    \/ value.k = "bool"

\* value.extract::<bool>() (lib.rs:183)
ExtractsBool(value) == value.k = "bool"

\* value.downcast::<PyList>() (lib.rs:188)
IsPyList(value) == value.k = "list"

\* type(value).__name__
ClassNameOf(value) ==
    CASE value.k = "obj" -> value.cls
      [] value.k = "none" -> "NoneType"
      [] OTHER -> value.k

\* value.getattr("__class__") ... getattr("__name__") ... extract::<String>() (lib.rs:212-214)
HasClassName(value) == value.k = "obj" => value.named

\* ResolvedValue::leaf(f64): serde_json has no number for a non-finite double
LeafOfF64(value) == IF value.v = "NaN" THEN JNull ELSE JNumber(value.v, "float")

-----------------------------------------------------------------------------
(* apollo_compiler::resolvers::ResolvedValue (lib.rs:5) *)

RNull == [rk |-> "null"]

RLeaf(json) == [rk |-> "leaf", json |-> json]

RList(items) == [rk |-> "list", items |-> items]

RObject(adapter) == [rk |-> "object", adapter |-> adapter]

\* ResolveInfo: field_name() and field_definition().ty.inner_named_type()
Info(field_name, inner) == [field_name |-> field_name, inner |-> inner]

\* ObjectValue::unknown_field_error (lib.rs:72, 108, 115)
unknown_field_error(info) == "UnknownField"

-----------------------------------------------------------------------------
(* struct JsonResolver (lib.rs:25-75) *)

JsonResolver_new(type_name, data) == [ak |-> "json", type_name |-> type_name, data |-> data]

\* The type name of a child JsonResolver (lib.rs:58-65)
JsonChildTypeNameInferredOnly(obj, info) == info.inner

JsonChildTypeName(obj, info) ==
    IF N_typename \in DOMAIN obj.map /\ obj.map[N_typename].jk = "string"
    THEN obj.map[N_typename].v
    ELSE info.inner

\* JsonResolver::resolve_field (lib.rs:41-74)
JsonResolveArrayRecursed(self, info) ==
    LET f == info.field_name
        present == self.data.jk = "object" /\ f \in DOMAIN self.data.map
        value == self.data.map[f]
    IN  IF ~present THEN Err(unknown_field_error(info), <<>>)
        ELSE CASE value.jk = "array" ->
                    Ok(RList([i \in 1..Len(value.items) |-> RLeaf(value.items[i])]), <<>>)
               [] value.jk = "null" -> Ok(RNull, <<>>)
               [] value.jk = "object" ->
                    Ok(RObject(JsonResolver_new(JsonChildTypeName(value, info), value)), <<>>)
               [] OTHER -> Ok(RLeaf(value), <<>>)

JsonResolver_resolve_field(self, info) ==
    LET f == info.field_name
        present == self.data.jk = "object" /\ f \in DOMAIN self.data.map
        value == self.data.map[f]
    IN  IF ~present THEN Err(unknown_field_error(info), <<>>)
        ELSE CASE value.jk = "string" -> Ok(RLeaf(value), <<>>)
               [] value.jk = "number" -> Ok(RLeaf(value), <<>>)
               [] value.jk = "bool" -> Ok(RLeaf(value), <<>>)
               [] value.jk = "null" -> Ok(RNull, <<>>)
               [] value.jk = "array" -> Ok(RLeaf(value), <<>>)
               [] value.jk = "object" ->
                    Ok(RObject(JsonResolver_new(JsonChildTypeName(value, info), value)), <<>>)

-----------------------------------------------------------------------------
(* struct PythonResolver (lib.rs:78-124) and python_to_resolved_value *)

PythonResolver_new(type_name, py_object) ==
    [ak |-> "py", type_name |-> type_name, py_object |-> py_object]

\* The type name of a PythonResolver made by the marshaler (lib.rs:210-226)
PyTypeName(value, info) ==
    IF HasClassName(value) THEN ClassNameOf(value) ELSE info.inner

\* The scalar branches of python_to_resolved_value, in the order the code
\* tries them (lib.rs:166-185); "none" when no scalar branch takes the value
ScalarBranchBoolFirst(value) ==
    CASE is_none(value) -> "null"
      [] ExtractsString(value) -> "string"
      [] ExtractsBool(value) -> "bool"
      [] ExtractsI64(value) -> "i64"
      [] ExtractsF64(value) -> "f64"
      [] OTHER -> "none"

ScalarBranch(value) ==
    CASE is_none(value) -> "null"
      [] ExtractsString(value) -> "string"
      [] ExtractsI64(value) -> "i64"
      [] ExtractsF64(value) -> "f64"
      [] ExtractsBool(value) -> "bool"
      [] OTHER -> "none"

\* The host accesses made up to and including the branch that returns
ScalarEvents(branch) ==
    CASE branch = "null" -> <<"is_none">>
      [] branch = "string" -> <<"is_none", "extract">>
      [] branch = "i64" -> <<"is_none", "extract", "extract">>
      [] branch = "f64" -> <<"is_none", "extract", "extract", "extract">>
      [] OTHER -> <<"is_none", "extract", "extract", "extract", "extract">>

RECURSIVE Flatten(_)
Flatten(seqs) == IF seqs = <<>> THEN <<>> ELSE Head(seqs) \o Flatten(Tail(seqs))

\* python_to_resolved_value (lib.rs:160-231)
RECURSIVE python_to_resolved_value(_, _)
python_to_resolved_value(value, info) ==
    LET branch == ScalarBranch(value)
        sev == ScalarEvents(branch)
    IN  CASE branch = "null" -> Ok(RNull, sev)
          [] branch = "string" -> Ok(RLeaf(JString(value.v)), sev)
          [] branch = "i64" -> Ok(RLeaf(JNumber(I64Of(value), "int")), sev)
          [] branch = "f64" -> Ok(RLeaf(LeafOfF64(value)), sev)
          [] branch = "bool" -> Ok(RLeaf(JBool(value.v)), sev)
          [] OTHER ->
             IF IsPyList(value)
             THEN IF Len(value.items) = 0
                  THEN Ok(RLeaf(JArray(<<>>)), sev \o <<"downcast", "len">>)
                  ELSE LET rs == [i \in 1..Len(value.items) |->
                                     python_to_resolved_value(value.items[i], info)]
                           bad == {i \in 1..Len(rs) : ~rs[i].ok}
                           first == CHOOSE i \in bad : \A j \in bad : i <= j
                       IN  IF bad # {}
                           THEN Err(rs[first].err,
                                    sev \o <<"downcast", "len">>
                                        \o Flatten([i \in 1..first |-> <<"iter">> \o rs[i].ev]))
                           ELSE Ok(RList([i \in 1..Len(rs) |-> rs[i].val]),
                                   sev \o <<"downcast", "len">>
                                       \o Flatten([i \in 1..Len(rs) |-> <<"iter">> \o rs[i].ev]))
             ELSE Ok(RObject(PythonResolver_new(PyTypeName(value, info), value)),
                     sev \o <<"downcast", "getattr", "getattr", "extract">>)

\* Python::with_gil(|py| ...) (lib.rs:97, 245): the lock is held for the
\* closure and released when it returns, whatever it returns
WithGilLeakOnErr(r) ==
    [r EXCEPT !.ev = <<"acquire">> \o @ \o (IF r.ok THEN <<"release">> ELSE <<>>)]

with_gil(r) == [r EXCEPT !.ev = <<"acquire">> \o @ \o <<"release">>]

\* obj.getattr(field_name).or_else(|_| obj.getattr(camel_to_snake(field_name)))
\* (lib.rs:102-108): the attribute name selected, <<>> marking none
SelectAttrSnakeFirst(obj, field_name) ==
    IF HasAttr(obj, camel_to_snake(field_name)) THEN <<camel_to_snake(field_name)>>
    ELSE IF HasAttr(obj, field_name) THEN <<field_name>>
    ELSE <<>>

SelectAttr(obj, field_name) ==
    IF HasAttr(obj, field_name) THEN <<field_name>>
    ELSE IF HasAttr(obj, camel_to_snake(field_name)) THEN <<camel_to_snake(field_name)>>
    ELSE <<>>

\* The closure of PythonResolver::resolve_field (lib.rs:98-121)
PyResolveBody(self, info) ==
    LET obj == self.py_object
        sel == SelectAttr(obj, info.field_name)
        gev == IF HasAttr(obj, info.field_name) THEN <<"getattr">> ELSE <<"getattr", "getattr">>
    IN  IF sel = <<>> THEN Err(unknown_field_error(info), gev)
        ELSE LET result == obj.attrs[sel[1]]
             IN  IF is_callable(result)
                 THEN IF result.raises
                      THEN Err(unknown_field_error(info), gev \o <<"is_callable", "call0">>)
                      ELSE LET m == python_to_resolved_value(result.ret, info)
                           IN  [m EXCEPT !.ev = gev \o <<"is_callable", "call0">> \o @]
                 ELSE LET m == python_to_resolved_value(result, info)
                      IN  [m EXCEPT !.ev = gev \o <<"is_callable">> \o @]

\* PythonResolver::resolve_field (lib.rs:94-123)
PythonResolver_resolve_field(self, info) == with_gil(PyResolveBody(self, info))

\* ObjectValue::resolve_field, dispatched on the adapter (lib.rs:41, 94)
resolve_field(self, info) ==
    IF self.ak = "json" THEN JsonResolver_resolve_field(self, info)
    ELSE PythonResolver_resolve_field(self, info)

-----------------------------------------------------------------------------
(* The host's json.dumps and serde_json::from_str (lib.rs:245-252) *)

\* JSON text, kept as a tree of lexemes
TLit(lex, cat) == [tk |-> "lit", lex |-> lex, cat |-> cat]

TStr(s) == [tk |-> "str", v |-> s]

TArr(items) == [tk |-> "arr", items |-> items]

TObj(map) == [tk |-> "obj", map |-> map]

\* json.dumps raises TypeError on a value it has no encoding for
RECURSIVE Dumpable(_)
Dumpable(value) ==
    CASE value.k \in {"obj", "method"} -> FALSE
      [] value.k = "list" -> \A i \in 1..Len(value.items) : Dumpable(value.items[i])
      [] value.k = "dict" -> \A key \in DOMAIN value.map : Dumpable(value.map[key])
      [] OTHER -> TRUE

RECURSIVE DumpText(_)
DumpText(value) ==
    CASE value.k = "none" -> TLit("null", "null")
      [] value.k = "bool" -> TLit(value.v, "bool")
      [] value.k = "int" -> TLit(value.v, value.mag)
      [] value.k = "float" -> TLit(value.v, IF value.v = "NaN" THEN "nan" ELSE "float")
      [] value.k = "str" -> TStr(value.v)
      [] value.k = "list" -> TArr([i \in 1..Len(value.items) |-> DumpText(value.items[i])])
      [] value.k = "dict" -> TObj([key \in DOMAIN value.map |-> DumpText(value.map[key])])

\* dumps.call1((root_data,))?.extract::<String>() (lib.rs:246-248)
json_dumps(value) ==
    IF Dumpable(value) THEN [ok |-> TRUE, text |-> DumpText(value)]
    ELSE [ok |-> FALSE, exc |-> "TypeError"]

\* serde_json rejects the lexeme NaN and a number too large for a double
RECURSIVE Parsable(_)
Parsable(text) ==
    CASE text.tk = "lit" -> text.cat \notin {"nan", "huge"}
      [] text.tk = "arr" -> \A i \in 1..Len(text.items) : Parsable(text.items[i])
      [] text.tk = "obj" -> \A key \in DOMAIN text.map : Parsable(text.map[key])
      [] OTHER -> TRUE

RECURSIVE ParseJson(_)
ParseJson(text) ==
    CASE text.tk = "lit" ->
            (CASE text.cat = "null" -> JNull
               [] text.cat = "bool" -> JBool(text.lex)
               [] text.cat = "i64" -> JNumber(text.lex, "int")
               [] OTHER -> JNumber(text.lex, "float"))
      [] text.tk = "str" -> JString(text.v)
      [] text.tk = "arr" -> JArray([i \in 1..Len(text.items) |-> ParseJson(text.items[i])])
      [] text.tk = "obj" -> JObject([key \in DOMAIN text.map |-> ParseJson(text.map[key])])

\* serde_json::from_str(&json_str) (lib.rs:251)
serde_from_str(text) ==
    IF Parsable(text) THEN [ok |-> TRUE, json |-> ParseJson(text)]
    ELSE [ok |-> FALSE]

-----------------------------------------------------------------------------
(* The schema and document handed to the engine (lib.rs:235-243, 270-278)  *)
(*   type Query { hello: String  homeStadium: Stadium }                    *)
(*   type Stadium { name: String! }                                        *)

ObjectTypes == {"Query", "Stadium"}

\* The selection the validated document makes on an object of type T, the
\* root selecting the single field q
SelectionOn(T, q) == IF T = "Query" THEN <<q>> ELSE <<N_name>>

\* info.field_definition().ty.inner_named_type() (lib.rs:63-64, 218)
InnerNamedType(T, f) ==
    IF T = "Query" /\ f = N_homeStadium THEN "Stadium" ELSE "String"

\* The adapters a resolved value carries, in order
RECURSIVE AdaptersOf(_)
AdaptersOf(rv) ==
    CASE rv.rk = "object" -> <<rv.adapter>>
      [] rv.rk = "list" -> Flatten([i \in 1..Len(rv.items) |-> AdaptersOf(rv.items[i])])
      [] OTHER -> <<>>

\* The resolve_field calls the engine makes on an adapter it was handed:
\* one per selected field, when the adapter names an object type of the schema
TasksFor(adapter, q) ==
    IF adapter.type_name \in ObjectTypes
    THEN LET sel == SelectionOn(adapter.type_name, q)
         IN  [i \in 1..Len(sel) |->
                 [adapter |-> adapter,
                  info |-> Info(sel[i], InnerNamedType(adapter.type_name, sel[i]))]]
    ELSE <<>>

\* Execution::execute_sync's response data for an adapter (lib.rs:256, 282):
\* a field error or an object of a type the schema lacks completes to null
RECURSIVE CompleteValue(_, _)
RECURSIVE CompleteObject(_, _)
CompleteValue(rv, q) ==
    CASE rv.rk = "null" -> JNull
      [] rv.rk = "leaf" -> rv.json
      [] rv.rk = "list" -> JArray([i \in 1..Len(rv.items) |-> CompleteValue(rv.items[i], q)])
      [] rv.rk = "object" -> CompleteObject(rv.adapter, q)

CompleteObject(adapter, q) ==
    IF adapter.type_name \notin ObjectTypes THEN JNull
    ELSE LET sel == SelectionOn(adapter.type_name, q)
             names == {sel[i] : i \in 1..Len(sel)}
         IN  JObject([f \in names |->
                 LET r == resolve_field(adapter, Info(f, InnerNamedType(adapter.type_name, f)))
                 IN  IF r.ok THEN CompleteValue(r.val, q) ELSE JNull])

-----------------------------------------------------------------------------
(* Inputs: the host values a call can be handed *)

Scalars ==
    { PyNone, PyStr("hi"), PyInt("7", "i64"), PyInt("2e19", "f64"), PyInt("1e400", "huge"),
      PyFloat("1.5"), PyFloat("NaN"), PyBool("true"), PyBool("false") }

NameAttrs ==
    { <<>>, N_name :> PyStr("Arena"), N_name :> PyMethod(FALSE, PyStr("Arena")) }

StadiumObjects ==
    { PyObj(c, TRUE, a) : c \in {"Stadium", "StadiumModel", ""}, a \in NameAttrs }
        \cup { PyObj("", FALSE, a) : a \in NameAttrs }

TypenameEntries ==
    { <<>> } \cup { N_typename :> t : t \in {PyStr("Stadium"), PyStr("Bogus"), PyStr(""), PyInt("7", "i64")} }

StadiumDicts ==
    { PyDict(t @@ n) : t \in TypenameEntries, n \in {<<>>, N_name :> PyStr("Arena")} }

ListElements ==
    { PyInt("7", "i64"), PyBool("true"),
      PyObj("Stadium", TRUE, N_name :> PyStr("Arena")),
      PyDict((N_typename :> PyStr("Stadium")) @@ (N_name :> PyStr("Arena"))) }

RECURSIVE ListsUpTo(_)
ListsUpTo(n) ==
    IF n = 0 THEN {<<>>}
    ELSE LET shorter == ListsUpTo(n - 1)
         IN  shorter \cup {Append(w, e) : w \in {x \in shorter : Len(x) = n - 1}, e \in ListElements}

HostLists == { PyList(items) : items \in ListsUpTo(MaxListLen) }

HostValues == Scalars \cup StadiumObjects \cup StadiumDicts \cup HostLists

\* What getattr can return: a value, a method returning one, a method that raises
AttrValues ==
    HostValues \cup { PyMethod(FALSE, v) : v \in HostValues } \cup { PyMethod(TRUE, PyNone) }

FewAttrValues ==
    { PyStr("hi"), PyMethod(FALSE, PyInt("7", "i64")), PyMethod(TRUE, PyNone),
      PyObj("Stadium", TRUE, N_name :> PyStr("Arena")) }

QueryFields == {N_hello, N_homeStadium}

\* Root objects for the query { f ... }: the attribute f, the attribute
\* camel_to_snake(f), both, or neither
LiveRoots(f) ==
    { PyObj("Query", TRUE, <<>>) }
        \cup { PyObj("Query", TRUE, f :> a) : a \in AttrValues }
        \cup { PyObj("Query", TRUE, camel_to_snake(f) :> a) : a \in AttrValues }
        \cup { PyObj("Query", TRUE, (f :> a) @@ (camel_to_snake(f) :> b)) :
                  a \in FewAttrValues, b \in FewAttrValues }

RootTypenames == { <<>>, N_typename :> PyStr("Query"), N_typename :> PyStr("Other") }

\* Root mappings for the query { f ... }
DataRoots(f) ==
    { PyDict(t) : t \in RootTypenames }
        \cup { PyDict(t @@ (f :> v)) : t \in RootTypenames, v \in HostValues }

-----------------------------------------------------------------------------
(* One call of an entry point, the engine calling back resolve_field *)

NoCall == [made |-> FALSE]

\* pyo3's GIL nesting depth after a sequence of host-runtime events
RECURSIVE DepthAfter(_, _)
DepthAfter(depth, ev) ==
    IF ev = <<>> THEN depth
    ELSE DepthAfter(CASE Head(ev) = "acquire" -> depth + 1
                      [] Head(ev) = "release" -> depth - 1
                      [] OTHER -> depth,
                    Tail(ev))

Prefix(ev, n) == [i \in 1..n |-> ev[i]]

SnakeOff ==
    /\ s_in = <<>>
    /\ s_i = 0
    /\ s_out = <<>>
    /\ s_pc = "off"

ExecIdle ==
    /\ pc = "idle"
    /\ entry = "none"
    /\ root = PyNone
    /\ query = <<>>
    /\ rootResolver = NoCall
    /\ tasks = <<>>
    /\ adapters = {}
    /\ last = NoCall
    /\ gil = 0
    /\ outcome = "none"
    /\ stage = "none"
    /\ execStarted = FALSE
    /\ response = JNull
    /\ hostLog = <<>>

\* A call that ends before the engine executes: the exception raised
Raise(e, f, r, st, exc, ev) ==
    /\ pc' = "done"
    /\ entry' = e
    /\ root' = r
    /\ query' = f
    /\ outcome' = exc
    /\ stage' = st
    /\ hostLog' = ev
    /\ gil' = DepthAfter(1, ev)
    /\ UNCHANGED <<rootResolver, tasks, adapters, last, execStarted, response>>

\* Execution::new(&schema, &document); execution.execute_sync(&resolver)
\* (lib.rs:254-256, 280-282): the engine starts on the root adapter
StartExecution(e, f, r, resolver, ev) ==
    /\ pc' = "executing"
    /\ entry' = e
    /\ root' = r
    /\ query' = f
    /\ rootResolver' = resolver
    /\ tasks' = TasksFor(resolver, f)
    /\ adapters' = {resolver}
    /\ execStarted' = TRUE
    /\ hostLog' = ev
    /\ gil' = DepthAfter(1, ev)
    /\ UNCHANGED <<last, outcome, stage, response>>

\* The root adapter of execute_query (lib.rs:254)
DataRootResolver(root_value) == JsonResolver_new("Query", root_value)

\* execute_query (lib.rs:234-257), up to the engine's first callback
execute_query ==
    /\ UNCHANGED <<snakeVars, marshalVars>>
    /\ pc = "idle"
    /\ \E f \in QueryFields : \E root_data \in DataRoots(f), schema_ok, document_ok \in BOOLEAN :
          LET dumped == json_dumps(root_data)
              dev == <<"acquire", "import", "getattr", "call1">>
                        \o (IF dumped.ok THEN <<"extract">> ELSE <<>>) \o <<"release">>
          IN  IF ~schema_ok THEN Raise("data", f, root_data, "schema", "ValueError", <<>>)
              ELSE IF ~document_ok
                   THEN Raise("data", f, root_data, "document", "ValueError", <<>>)
              ELSE IF ~dumped.ok
                   THEN Raise("data", f, root_data, "dumps", dumped.exc, dev)
              ELSE LET parsed == serde_from_str(dumped.text)
                   IN  IF ~parsed.ok
                       THEN Raise("data", f, root_data, "from_str", "ValueError", dev)
                       ELSE StartExecution("data", f, root_data,
                                           DataRootResolver(parsed.json), dev)

\* execute_query_with_resolvers (lib.rs:265-282), up to the engine's first callback
execute_query_with_resolvers ==
    /\ UNCHANGED <<snakeVars, marshalVars>>
    /\ pc = "idle"
    /\ \E f \in QueryFields : \E root_value \in LiveRoots(f), schema_ok, document_ok \in BOOLEAN :
          IF ~schema_ok THEN Raise("live", f, root_value, "schema", "ValueError", <<>>)
          ELSE IF ~document_ok
               THEN Raise("live", f, root_value, "document", "ValueError", <<>>)
          ELSE StartExecution("live", f, root_value,
                              PythonResolver_new("Query", root_value), <<>>)

\* The engine calls resolve_field on an adapter it holds (lib.rs:41-74, 94-123)
EngineResolve ==
    /\ UNCHANGED <<snakeVars, marshalVars>>
    /\ pc = "executing"
    /\ tasks # <<>>
    /\ LET task == Head(tasks)
           r == resolve_field(task.adapter, task.info)
           made == IF r.ok THEN AdaptersOf(r.val) ELSE <<>>
       IN  /\ last' = [made |-> TRUE, adapter |-> task.adapter, info |-> task.info,
                       result |-> r, gil_before |-> gil]
           /\ hostLog' = r.ev
           /\ gil' = DepthAfter(gil, r.ev)
           /\ adapters' = adapters \cup {made[i] : i \in 1..Len(made)}
           /\ tasks' = Tail(tasks) \o Flatten([i \in 1..Len(made) |-> TasksFor(made[i], query)])
    /\ UNCHANGED <<pc, entry, root, query, rootResolver, outcome, stage, execStarted,
                   response>>

\* execute_sync returns Ok(response); serde_json::to_string_pretty (lib.rs:256-260, 282-286)
EngineFinish ==
    /\ UNCHANGED <<snakeVars, marshalVars>>
    /\ pc = "executing"
    /\ tasks = <<>>
    /\ last.made
    /\ pc' = "done"
    /\ outcome' = "ok"
    /\ stage' = "return"
    /\ response' = CompleteObject(rootResolver, query)
    /\ UNCHANGED <<entry, root, query, rootResolver, tasks, adapters, last, gil,
                   execStarted, hostLog>>

\* execute_sync returns Err(e), mapped to PyRuntimeError (lib.rs:257, 283):
\* the engine finds no operation to run and calls no resolver
EngineRequestError ==
    /\ UNCHANGED <<snakeVars, marshalVars>>
    /\ pc = "executing"
    /\ ~last.made
    /\ pc' = "done"
    /\ outcome' = "RuntimeError"
    /\ stage' = "execute"
    /\ tasks' = <<>>
    /\ UNCHANGED <<entry, root, query, rootResolver, adapters, last, gil, execStarted,
                   response, hostLog>>

\* The #[pyfunction] returns to the host: its handles are dropped
Return ==
    /\ UNCHANGED <<snakeVars, marshalVars>>
    /\ pc = "done"
    /\ pc' = "idle"
    /\ entry' = "none"
    /\ root' = PyNone
    /\ query' = <<>>
    /\ rootResolver' = NoCall
    /\ tasks' = <<>>
    /\ adapters' = {}
    /\ last' = NoCall
    /\ gil' = gil - 1
    /\ outcome' = "none"
    /\ stage' = "none"
    /\ execStarted' = FALSE
    /\ response' = JNull
    /\ hostLog' = <<>>

ExecNext ==
    \/ execute_query
    \/ execute_query_with_resolvers
    \/ EngineResolve
    \/ EngineFinish
    \/ EngineRequestError
    \/ Return

-----------------------------------------------------------------------------
(* python_to_resolved_value applied to one host value *)

MarshalOff ==
    /\ m_value = PyNone
    /\ m_info = Info(<<>>, "")
    /\ m_result = NoCall
    /\ m_pc = "off"

MarshalInputs ==
    HostValues \cup { PyMethod(FALSE, PyNone), PyList(<<PyList(<<PyBool("false")>>)>>) }

MarshalInfos == { Info(N_hello, "String"), Info(N_homeStadium, "Stadium") }

MarshalInit ==
    /\ m_value \in MarshalInputs
    /\ m_info \in MarshalInfos
    /\ m_result = NoCall
    /\ m_pc = "call"
    /\ SnakeOff
    /\ ExecIdle

\* python_to_resolved_value(py, value, info) (lib.rs:160-231)
Marshal ==
    /\ m_pc = "call"
    /\ m_result' = python_to_resolved_value(m_value, m_info)
    /\ m_pc' = "done"
    /\ UNCHANGED <<m_value, m_info, snakeVars, execVars>>

\* The caller drops the result and marshals another value
MarshalAgain ==
    /\ m_pc = "done"
    /\ m_value' \in MarshalInputs
    /\ m_info' \in MarshalInfos
    /\ m_result' = NoCall
    /\ m_pc' = "call"
    /\ UNCHANGED <<snakeVars, execVars>>

MarshalNext == Marshal \/ MarshalAgain

SpecMarshal == MarshalInit /\ [][MarshalNext]_vars

-----------------------------------------------------------------------------
(* camel_to_snake as a loop *)

SnakeAlphabet == {"a", "B", "Z", "7", "_"}

RECURSIVE StringsUpTo(_, _)
StringsUpTo(A, n) ==
    IF n = 0 THEN {<<>>}
    ELSE LET shorter == StringsUpTo(A, n - 1)
         IN  shorter \cup {Append(w, c) : w \in {x \in shorter : Len(x) = n - 1}, c \in A}

SnakeInputs == StringsUpTo(SnakeAlphabet, MaxNameLen)

SnakeInit ==
    /\ s_in \in SnakeInputs
    /\ s_i = 0
    /\ s_out = <<>>
    /\ s_pc = "loop"
    /\ MarshalOff
    /\ ExecIdle

\* for (i, ch) in s.chars().enumerate() { ... } (lib.rs:12-21)
SnakeLoop ==
    /\ s_pc = "loop"
    /\ s_i < Len(s_in)
    /\ s_out' = s_out \o SnakePush(s_i, s_in[s_i + 1])
    /\ s_i' = s_i + 1
    /\ UNCHANGED <<s_in, s_pc, marshalVars, execVars>>

\* result (lib.rs:22)
SnakeReturn ==
    /\ s_pc = "loop"
    /\ s_i = Len(s_in)
    /\ s_pc' = "done"
    /\ UNCHANGED <<s_in, s_i, s_out, marshalVars, execVars>>

SnakeNext == SnakeLoop \/ SnakeReturn

SpecSnake == SnakeInit /\ [][SnakeNext]_vars

-----------------------------------------------------------------------------
(* The entry points *)

ExecInit == ExecIdle /\ SnakeOff /\ MarshalOff

Spec == ExecInit /\ [][ExecNext]_vars

-----------------------------------------------------------------------------
(* Claims *)

\* The root mapping a root object materializes to: each selected field keyed
\* by its GraphQL name, holding the attribute's value or its call's result
TheAttr(obj, f) ==
    IF HasAttr(obj, f) THEN obj.attrs[f] ELSE obj.attrs[camel_to_snake(f)]

AttrResult(obj, f) ==
    IF is_callable(TheAttr(obj, f)) THEN TheAttr(obj, f).ret ELSE TheAttr(obj, f)

FieldMatches(obj, f) ==
    /\ HasAttr(obj, f) \/ HasAttr(obj, camel_to_snake(f))
    /\ is_callable(TheAttr(obj, f)) => ~TheAttr(obj, f).raises

\* A value the data-dict path can be handed in place of v, for a field of
\* inner named type T: JSON-representable leaves, lists of them, and objects
\* of class T whose attributes match the fields of T
RECURSIVE Materializable(_, _, _)
Materializable(v, T, q) ==
    CASE v.k \in {"none", "str", "bool"} -> TRUE
      [] v.k = "int" -> v.mag # "huge"
      [] v.k = "float" -> v.v # "NaN"
      [] v.k = "list" -> \A i \in 1..Len(v.items) : Materializable(v.items[i], T, q)
      [] v.k = "obj" ->
            /\ T \in ObjectTypes
            /\ v.named
            /\ v.cls = T
            /\ \A i \in 1..Len(SelectionOn(T, q)) :
                  LET f == SelectionOn(T, q)[i]
                  IN  /\ FieldMatches(v, f)
                      /\ Materializable(AttrResult(v, f), InnerNamedType(T, f), q)
      [] OTHER -> FALSE

RECURSIVE Materialize(_, _, _)
Materialize(v, T, q) ==
    CASE v.k = "list" -> PyList([i \in 1..Len(v.items) |-> Materialize(v.items[i], T, q)])
      [] v.k = "obj" ->
            LET sel == SelectionOn(T, q)
            IN  PyDict([f \in {sel[i] : i \in 1..Len(sel)} |->
                           Materialize(AttrResult(v, f), InnerNamedType(T, f), q)])
      [] OTHER -> v

DataResponse(M, q) ==
    CompleteObject(DataRootResolver(serde_from_str(json_dumps(M).text).json), q)

\* C1: for a root object whose attributes match the fields of Query,
\* execute_query_with_resolvers returns the response that execute_query
\* returns for the mapping those attribute values materialize to (booleans,
\* lists and nested objects included).
C1_SameResponse ==
    (pc = "done" /\ entry = "live" /\ outcome = "ok" /\ Materializable(root, "Query", query))
        => response = DataResponse(Materialize(root, "Query", query), query)

\* C2: in execute_query a failure of schema parse/validate, of document
\* parse/validate, of the host's JSON serialization or of the native JSON
\* parse is raised as ValidationError (ValueError) with the engine's
\* execution never started; ExecutionError (RuntimeError) is raised only for
\* a failure returned by execute_sync.
C2_ErrorKinds ==
    (pc = "done" /\ entry = "data") =>
        /\ stage \in {"schema", "document", "dumps", "from_str"}
              => (outcome = "ValueError" /\ ~execStarted)
        /\ outcome = "RuntimeError" => stage = "execute"

HasTypenameString(json) ==
    /\ json.jk = "object"
    /\ N_typename \in DOMAIN json.map
    /\ json.map[N_typename].jk = "string"

\* C3 (as stated): every DataAdapter constructed for a mapping that holds
\* __typename: "T", the root mapping included, reports the type name "T".
C3_AnyMappingTypename ==
    \A a \in adapters :
        (a.ak = "json" /\ HasTypenameString(a.data))
            => a.type_name = a.data.map[N_typename].v

LastJson == last.made /\ last.adapter.ak = "json"

LastPy == last.made /\ last.adapter.ak = "py"

\* C3 (amended): the DataAdapter that resolve_field constructs for a mapping
\* held as the value of a field, when that mapping holds __typename: "T",
\* reports the type name "T" whatever type the schema declares for the field.
C3_NestedTypename ==
    LastJson =>
        LET f == last.info.field_name
            map == last.adapter.data.map
        IN  (f \in DOMAIN map /\ HasTypenameString(map[f])) =>
                /\ last.result.ok
                /\ last.result.val.rk = "object"
                /\ last.result.val.adapter.ak = "json"
                /\ last.result.val.adapter.data = map[f]
                /\ last.result.val.adapter.type_name = map[f].map[N_typename].v

C3_Witness ==
    /\ LastJson
    /\ last.info.field_name \in DOMAIN last.adapter.data.map
    /\ HasTypenameString(last.adapter.data.map[last.info.field_name])
    /\ last.info.inner = "Stadium"
    /\ last.result.val.adapter.type_name = "Bogus"

\* C4: LiveAdapter.resolve_field for field name f selects the attribute f if
\* it exists, otherwise the attribute camel_to_snake(f); a callable attribute
\* is called with no arguments and the call's result marshaled, any other
\* attribute is marshaled itself; the result is UnknownField exactly when
\* both lookups fail or the call raises, and no other error is produced.
C4_LiveResolve ==
    LastPy =>
        LET obj == last.adapter.py_object
            f == last.info.field_name
            s == camel_to_snake(f)
            hasF == HasAttr(obj, f)
            hasS == HasAttr(obj, s)
            attr == IF hasF THEN obj.attrs[f] ELSE obj.attrs[s]
            fails == (~hasF /\ ~hasS) \/ (attr.k = "method" /\ attr.raises)
        IN  /\ last.result.ok <=> ~fails
            /\ ~last.result.ok => last.result.err = "UnknownField"
            /\ last.result.ok =>
                  last.result.val =
                      python_to_resolved_value(
                          IF attr.k = "method" THEN attr.ret ELSE attr, last.info).val

C4_Witness ==
    /\ LastPy
    /\ last.info.field_name = N_homeStadium
    /\ HasAttr(last.adapter.py_object, N_homeStadium)
    /\ HasAttr(last.adapter.py_object, camel_to_snake(N_homeStadium))
    /\ last.adapter.py_object.attrs[N_homeStadium] = PyMethod(FALSE, PyInt("7", "i64"))
    /\ last.adapter.py_object.attrs[camel_to_snake(N_homeStadium)] = PyStr("hi")
    /\ last.result.ok
    /\ last.result.val = RLeaf(JNumber("7", "int"))

\* C5: a host boolean passed to the value marshaler yields leaf(boolean),
\* never leaf(integer) 1 or 0.
C5_BoolIsBooleanLeaf ==
    (m_pc = "done" /\ m_value.k = "bool") =>
        /\ m_result.ok
        /\ m_result.val = RLeaf(JBool(m_value.v))

\* The leaf rule i of the classification order applies to v
C6Rule(v) ==
    IF v.k = "none" THEN 1
    ELSE IF ExtractsString(v) THEN 2
    ELSE IF ExtractsI64(v) THEN 3
    ELSE IF ExtractsF64(v) THEN 4
    ELSE IF ExtractsBool(v) THEN 5
    ELSE IF v.k = "list" THEN 6
    ELSE 7

C7_DataResolve ==
    LastJson =>
        LET f == last.info.field_name
            map == last.adapter.data.map
            r == last.result
        IN  /\ last.adapter.data.jk = "object"
            /\ ~r.ok <=> f \notin DOMAIN map
            /\ ~r.ok => r.err = "UnknownField"
            /\ r.ok =>
                  LET value == map[f]
                  IN  /\ value.jk \in {"string", "number", "bool", "array"}
                            => (r.val = RLeaf(value) /\ AdaptersOf(r.val) = <<>>)
                      /\ value.jk = "null" => r.val = RNull
                      /\ value.jk = "object" =>
                            /\ r.val.rk = "object"
                            /\ r.val.adapter.ak = "json"
                            /\ r.val.adapter.data = value

C7_Witness ==
    /\ LastJson
    /\ last.result.ok
    /\ last.result.val.rk = "leaf"
    /\ last.result.val.json.jk = "array"
    /\ Len(last.result.val.json.items) = 2
    /\ last.result.val.json.items[1].jk = "object"

\* C8: every adapter constructed during an execution has a type name that
\* is non-empty and names an object type of the schema.
C8_TypeNamesInSchema ==
    \A a \in adapters : a.type_name # "" /\ a.type_name \in ObjectTypes

HostAccess(e) == e \notin {"acquire", "release"}

\* C9: every host-runtime access of LiveAdapter.resolve_field happens under
\* the lock the call acquired, and the lock is released on every exit path:
\* the nesting depth after the call is the depth before it.
C9_GilScoped ==
    LastPy =>
        LET ev == last.result.ev
            base == last.gil_before
        IN  /\ \E i \in 1..Len(ev) : HostAccess(ev[i])
            /\ \A i \in 1..Len(ev) :
                  HostAccess(ev[i]) => DepthAfter(base, Prefix(ev, i - 1)) > base
            /\ DepthAfter(base, ev) = base
            /\ gil = base
            /\ gil >= 1

C9_Witness ==
    /\ LastPy
    /\ ~last.result.ok
    /\ "call0" \in {last.result.ev[i] : i \in 1..Len(last.result.ev)}
    /\ gil = last.gil_before

\* Number of uppercase characters among s[2..n]: those that get an underscore
UppersAfterFirst(s, n) == Cardinality({j \in 2..n : s[j] \in UpperChars})

\* Position in the output of the character translated from s[j]
OutPos(s, j) == j + UppersAfterFirst(s, j)

LowerOf(ch) == CASE ch = "B" -> "b" [] ch = "N" -> "n" [] ch = "S" -> "s" [] ch = "Z" -> "z"

\* C10: camel_to_snake(f) is f with each uppercase letter replaced by its
\* lowercase form, preceded by one inserted underscore unless the letter is
\* the first character, every other character copied unchanged in place; so
\* camel_to_snake(f) = f when f contains no uppercase letter.
C10_SnakeCase ==
    s_pc = "done" =>
        /\ Len(s_out) = Len(s_in) + UppersAfterFirst(s_in, Len(s_in))
        /\ \A j \in 1..Len(s_in) :
              LET p == OutPos(s_in, j)
              IN  IF s_in[j] \in {"B", "N", "S", "Z"}
                  THEN /\ s_out[p] = LowerOf(s_in[j])
                       /\ j > 1 => s_out[p - 1] = "_"
                       /\ j = 1 => p = 1
                  ELSE s_out[p] = s_in[j]
        /\ (\A j \in 1..Len(s_in) : s_in[j] \notin {"B", "N", "S", "Z"}) => s_out = s_in
        /\ s_out = camel_to_snake(s_in)

C10_Witness ==
    /\ s_pc = "done"
    /\ s_in = <<"B", "7", "Z">>
    /\ s_out = <<"b", "7", "_", "z">>

====
